---- MODULE Spec2Model ----
(***************************************************************************)
(* Model of the filename-to-canonical-name matching engine of              *)
(* backend/matching.py (normalize, anchor extraction, find_best_match,     *)
(* match_all).                                                             *)
(*                                                                         *)
(* Representation.                                                         *)
(*  - A Python str is a TLA+ string in the state; the functions work on    *)
(*    its sequence of one-character strings (Chars).                       *)
(*  - None (and any other non-str value) is the reserved value None, which *)
(*    holds characters outside the alphabet and so is no string of it.     *)
(*  - An absent token (Python None or "") is the empty sequence <<>>: the  *)
(*    code tests these values only by truthiness.                          *)
(*  - An unrounded score is an exact rational <<num, den>>, den > 0.  A    *)
(*    score returned to the caller (after round(x, 1)) is an integer       *)
(*    number of tenths: 786 stands for 78.6.                               *)
(*  - threshold is held as threshold * 100, an integer number of percent,  *)
(*    for thresholds whose product with 100 is exact in floating point.    *)
(***************************************************************************)
EXTENDS Integers, Sequences, FiniteSets, TLC

(***************************************************************************)
(* Characters                                                              *)
(***************************************************************************)
\* the elements f[1], ..., f[n] as an explicit list, each computed once
List(f, n) == SubSeq(f, 1, n)

\* the characters of a str
Chars(s) == List([i \in 1..Len(s) |-> SubSeq(s, i, i)], Len(s))

\* the alphabet in code-point order (Python compares str by code point)
CharSeq == Chars(" ()-./0123456789ABCDEFGHIJKLMNOPQRSTUVWXYZ_abcdefghijklmnopqrstuvwxyz")

CharSet == {CharSeq[i] : i \in 1..Len(CharSeq)}

Ord == [c \in CharSet |-> CHOOSE i \in 1..Len(CharSeq) : CharSeq[i] = c]

UpperSeq == Chars("ABCDEFGHIJKLMNOPQRSTUVWXYZ")

LowerSeq == Chars("abcdefghijklmnopqrstuvwxyz")

DigitSet == {"0", "1", "2", "3", "4", "5", "6", "7", "8", "9"}

LowerSet == {LowerSeq[i] : i \in 1..26}

UpperSet == {UpperSeq[i] : i \in 1..26}

\* str.lower() on one character
LowerOf == [c \in CharSet |->
              IF c \in UpperSet
              THEN LowerSeq[CHOOSE i \in 1..26 : UpperSeq[i] = c]
              ELSE c]

\* Python's None / any non-str value
None == "<None>"

IsStr(v) == v # None

\* str.isspace() on one character of the alphabet
IsSpace(c) == c = " "

\* regex \d
IsDigit(c) == c \in DigitSet

\* regex [a-z0-9]
IsLowerAlnum(c) == c \in LowerSet \/ c \in DigitSet

\* regex \w
IsWordChar(c) == c \in LowerSet \/ c \in UpperSet \/ c \in DigitSet \/ c = "_"

Max(a, b) == IF a >= b THEN a ELSE b

Min(a, b) == IF a <= b THEN a ELSE b

(***************************************************************************)
(* str methods on character sequences                                      *)
(***************************************************************************)
\* variant of lower: the characters are left as they are
lower_unchanged(cs) == cs

\* s.lower()
lower(cs) == List([i \in 1..Len(cs) |-> LowerOf[cs[i]]], Len(cs))

RECURSIVE lstrip(_)
lstrip(cs) == IF cs # <<>> /\ IsSpace(Head(cs)) THEN lstrip(Tail(cs)) ELSE cs

RECURSIVE rstrip(_)
rstrip(cs) ==
  IF cs # <<>> /\ IsSpace(cs[Len(cs)]) THEN rstrip(SubSeq(cs, 1, Len(cs) - 1)) ELSE cs

strip(cs) == rstrip(lstrip(cs))

\* s.replace(c, " ") for each c of " _-."
replace_separators(cs) ==
  List([i \in 1..Len(cs) |-> IF cs[i] \in {" ", "_", "-", "."} THEN " " ELSE cs[i]], Len(cs))

\* s.split(): the maximal runs of non-whitespace, in order
split(cs) ==
  LET idx == List([i \in 1..Len(cs) |-> i], Len(cs))
      IsStart(i) == ~IsSpace(cs[i]) /\ (i = 1 \/ IsSpace(cs[i - 1]))
      IsEnd(i) == ~IsSpace(cs[i]) /\ (i = Len(cs) \/ IsSpace(cs[i + 1]))
      starts == SelectSeq(idx, IsStart)
      ends == SelectSeq(idx, IsEnd)
  IN List([k \in 1..Len(starts) |-> SubSeq(cs, starts[k], ends[k])], Len(starts))

\* " ".join(words)
RECURSIVE join(_)
join(words) ==
  IF words = <<>> THEN <<>>
  ELSE IF Len(words) = 1 THEN words[1]
  ELSE words[1] \o <<" ">> \o join(Tail(words))

\* needle in hay
Contains(hay, needle) ==
  \E i \in 1..(Len(hay) - Len(needle) + 1) :
    \A k \in 1..Len(needle) : hay[i + k - 1] = needle[k]

\* the characters of a sequence back as one string
RECURSIVE Cat(_)
Cat(cs) ==
  IF cs = <<>> THEN ""
  ELSE IF Len(cs) = 1 THEN cs[1]
  ELSE LET h == Len(cs) \div 2
       IN Cat(SubSeq(cs, 1, h)) \o Cat(SubSeq(cs, h + 1, Len(cs)))

(***************************************************************************)
(* normalize                                                               *)
(***************************************************************************)
normalize_chars(cs) == join(split(replace_separators(strip(lower(cs)))))

\* normalize of a str given by its characters
normalize_text(cs) == IF cs = <<>> THEN <<>> ELSE normalize_chars(cs)

normalize(s) == IF ~IsStr(s) THEN <<>> ELSE normalize_text(Chars(s))

(***************************************************************************)
(* _SIZE_RE and _normalize_size                                            *)
(***************************************************************************)
DigitsAt(cs, i, k) == i + k - 1 <= Len(cs) /\ \A j \in i..(i + k - 1) : IsDigit(cs[j])

\* \d{2,4}, greedy: the counts in the order the regex engine tries them
DigitCounts == <<4, 3, 2>>

\* \s* (greedy; what follows is never whitespace): first index >= i that
\* holds no whitespace, Len(cs) + 1 if there is none
RECURSIVE SkipSpace(_, _)
SkipSpace(cs, i) == IF i <= Len(cs) /\ IsSpace(cs[i]) THEN SkipSpace(cs, i + 1) ELSE i

\* the second \d{2,4} at m: last index of the match, 0 if none
SizeTailEnd(cs, m) ==
  IF \E n \in 1..3 : DigitsAt(cs, m, DigitCounts[n])
  THEN LET n == CHOOSE n \in 1..3 :
                  /\ DigitsAt(cs, m, DigitCounts[n])
                  /\ \A p \in 1..(n - 1) : ~DigitsAt(cs, m, DigitCounts[p])
       IN m + DigitCounts[n] - 1
  ELSE 0

\* the match of _SIZE_RE that starts at i with k leading digits: last index, 0 if none
SizeEndWith(cs, i, k) ==
  IF ~DigitsAt(cs, i, k) THEN 0
  ELSE LET j == SkipSpace(cs, i + k)
       IN IF j <= Len(cs) /\ cs[j] \in {"x", "X"}
          THEN SizeTailEnd(cs, SkipSpace(cs, j + 1))
          ELSE 0

\* the match of _SIZE_RE that starts at i: last index, 0 if none
SizeEndAt(cs, i) ==
  IF \E n \in 1..3 : SizeEndWith(cs, i, DigitCounts[n]) # 0
  THEN LET n == CHOOSE n \in 1..3 :
                  /\ SizeEndWith(cs, i, DigitCounts[n]) # 0
                  /\ \A p \in 1..(n - 1) : SizeEndWith(cs, i, DigitCounts[p]) = 0
       IN SizeEndWith(cs, i, DigitCounts[n])
  ELSE 0

\* _SIZE_RE.search(s).group(0): the leftmost match, <<>> if there is none
size_search(cs) ==
  IF \E i \in 1..Len(cs) : SizeEndAt(cs, i) # 0
  THEN LET i == CHOOSE i \in 1..Len(cs) :
                  /\ SizeEndAt(cs, i) # 0
                  /\ \A p \in 1..(i - 1) : SizeEndAt(cs, p) = 0
       IN SubSeq(cs, i, SizeEndAt(cs, i))
  ELSE <<>>

normalize_size_chars(cs) == lower(SelectSeq(size_search(cs), LAMBDA c : ~IsSpace(c)))

\* _normalize_size(s) for a str s
normalize_size(s) == normalize_size_chars(Chars(s))

(***************************************************************************)
(* _creative_id_tokens and _anchor_bonus                                   *)
(***************************************************************************)
\* re.sub(r"[^a-z0-9]", "", word)
clean(word) == SelectSeq(word, IsLowerAlnum)

\* the cleaned words of length >= 6
long_tokens(words) ==
  {clean(words[i]) : i \in {k \in 1..Len(words) : Len(clean(words[k])) >= 6}}

creative_id_tokens(s) == long_tokens(split(normalize(s)))

\* variant of bonus_of: equal size tokens earn nothing
bonus_of_ids_only(file_size, choice_size, overlap) ==
  IF overlap # {} THEN Min(14, 7 * Cardinality(overlap)) ELSE 0

\* the bonus for the two size tokens and the shared ID tokens, in halves of a
\* point: 16 is 8.0, 7 is 3.5, 14 is 7.0
bonus_of(file_size, choice_size, overlap) ==
  (IF file_size # <<>> /\ choice_size # <<>> /\ file_size = choice_size THEN 16 ELSE 0)
  + (IF overlap # {} THEN Min(14, 7 * Cardinality(overlap)) ELSE 0)

anchor_bonus(file_stem, choice) ==
  bonus_of(normalize_size(file_stem), normalize_size(choice),
           creative_id_tokens(file_stem) \cap creative_id_tokens(choice))

(***************************************************************************)
(* _primary_creative_token                                                 *)
(***************************************************************************)
\* file_stem.split("(")[0]
before_paren(cs) ==
  IF \E i \in 1..Len(cs) : cs[i] = "("
  THEN LET i == CHOOSE i \in 1..Len(cs) : cs[i] = "(" /\ \A k \in 1..(i - 1) : cs[k] # "("
       IN SubSeq(cs, 1, i - 1)
  ELSE cs

StopList ==
  {Chars("display"), Chars("ads"), Chars("p4"), Chars("p04"), Chars("fr"),
   Chars("benl"), Chars("befr"), Chars("online"), Chars("ondersteuning"), Chars("vl")}

\* the words, cleaned, that pass the four `continue` tests, in order
kept_words(words, size_norm) ==
  SelectSeq(List([i \in 1..Len(words) |-> clean(words[i])], Len(words)),
            LAMBDA w : /\ Len(w) >= 5
                       /\ w # size_norm
                       /\ ~(\A k \in 1..Len(w) : IsDigit(w[k]))
                       /\ w \notin StopList)

\* the candidates of the stem: its part before "(", normalized, word by word
primary_candidates(file_stem) ==
  kept_words(split(normalize_text(strip(before_paren(Chars(file_stem))))),
             normalize_size(file_stem))

\* max(candidates, key=lambda x: x[1])[0]: the first of the longest; <<>> for None
first_longest(cands) ==
  IF cands = <<>> THEN <<>>
  ELSE cands[CHOOSE i \in 1..Len(cands) :
               /\ \A k \in 1..Len(cands) : Len(cands[k]) <= Len(cands[i])
               /\ \A k \in 1..(i - 1) : Len(cands[k]) < Len(cands[i])]

primary_creative_token(file_stem) == first_longest(primary_candidates(file_stem))

(***************************************************************************)
(* _region_from_file_stem                                                  *)
(***************************************************************************)
\* regex \b between cs[p] and cs[p + 1] (p = 0 and p = Len(cs) are the ends)
WordAt(cs, p) == p >= 1 /\ p <= Len(cs) /\ IsWordChar(cs[p])

Boundary(cs, p) == WordAt(cs, p) # WordAt(cs, p + 1)

\* lit occurs at i
OccursAt(cs, lit, i) ==
  i >= 1 /\ i + Len(lit) - 1 <= Len(cs) /\ \A k \in 1..Len(lit) : cs[i + k - 1] = lit[k]

\* re.search of  lit\b
SearchThenB(cs, lit) ==
  \E i \in 1..Len(cs) : OccursAt(cs, lit, i) /\ Boundary(cs, i + Len(lit) - 1)

\* re.search of  \blit\b
SearchBThenB(cs, lit) ==
  \E i \in 1..Len(cs) :
    OccursAt(cs, lit, i) /\ Boundary(cs, i - 1) /\ Boundary(cs, i + Len(lit) - 1)

\* r"p4/fr|/fr\b|_fr\b|-fr\b|\bfr\b" and its vl, nl analogues
HintSearch(cs, code, withP4) ==
  \/ withP4 /\ Contains(cs, Chars("p4/") \o code)
  \/ SearchThenB(cs, <<"/">> \o code)
  \/ SearchThenB(cs, <<"_">> \o code)
  \/ SearchThenB(cs, <<"-">> \o code)
  \/ SearchBThenB(cs, code)

\* the region of the lower-cased stem s; <<>> for None
region_of(s) ==
  IF Contains(s, Chars("befr")) THEN Chars("befr")
  ELSE IF Contains(s, Chars("benl")) THEN Chars("benl")
  ELSE IF HintSearch(s, Chars("fr"), TRUE) THEN Chars("befr")
  ELSE IF HintSearch(s, Chars("vl"), TRUE) THEN Chars("benl")
  ELSE IF HintSearch(s, Chars("nl"), FALSE) THEN Chars("benl")
  ELSE <<>>

region_from_file_stem(file_stem) == region_of(lower(Chars(file_stem)))

(***************************************************************************)
(* rapidfuzz.fuzz.token_set_ratio (no processor, no score_cutoff)          *)
(***************************************************************************)
\* a < b for two str, by code point
RECURSIVE LexLess(_, _)
LexLess(a, b) ==
  IF b = <<>> THEN FALSE
  ELSE IF a = <<>> THEN TRUE
  ELSE IF Head(a) = Head(b) THEN LexLess(Tail(a), Tail(b))
  ELSE Ord[Head(a)] < Ord[Head(b)]

\* sorted(tokens)
RECURSIVE Sorted(_)
Sorted(S) ==
  IF S = {} THEN <<>>
  ELSE LET m == CHOOSE m \in S : \A o \in S : o = m \/ LexLess(m, o)
       IN <<m>> \o Sorted(S \ {m})

\* the largest element of a non-empty set of integers
SetMax(S) == CHOOSE m \in S : \A o \in S : o <= m

\* one row of the longest-common-subsequence table: row[j + 1] is the length
\* for the prefix of a that ends with x and b[1..j], prev the row before it.
\* x is left out, or is matched with some b[k], k <= j.
LcsRow(x, b, prev) ==
  List([c \in 1..(Len(b) + 1) |->
          SetMax({prev[c]} \cup {prev[k] + 1 : k \in {m \in 1..(c - 1) : b[m] = x}})],
       Len(b) + 1)

\* the row is computed before the next one is started
RECURSIVE LcsRows(_, _, _, _)
LcsRows(a, b, i, prev) ==
  IF i > Len(a) THEN prev[Len(b) + 1]
  ELSE LET row == LcsRow(a[i], b, prev)
       IN IF Len(row) = Len(b) + 1 THEN LcsRows(a, b, i + 1, row) ELSE 0

\* length of a longest common subsequence
Lcs(a, b) == LcsRows(a, b, 1, List([c \in 1..(Len(b) + 1) |-> 0], Len(b) + 1))

\* Indel.distance: insertions and deletions only
indel_distance(a, b) == Len(a) + Len(b) - 2 * Lcs(a, b)

\* exact rationals <<num, den>>, den > 0
QLess(a, b) == a[1] * b[2] < b[1] * a[2]

QMax(a, b) == IF QLess(a, b) THEN b ELSE a

\* 100 - 100 * dist / lensum, 100 when lensum = 0
norm_distance(dist, lensum) ==
  IF lensum = 0 THEN <<100, 1>> ELSE <<100 * (lensum - dist), lensum>>

\* len(" ".join(tokens)) for a set of tokens
RECURSIVE JoinedLen(_)
JoinedLen(S) ==
  IF S = {} THEN 0
  ELSE LET t == CHOOSE t \in S : TRUE
       IN Len(t) + (IF S = {t} THEN 0 ELSE 1 + JoinedLen(S \ {t}))

\* the set of the elements of a list
Elements(l) == {l[i] : i \in 1..Len(l)}

\* the three ratios of the common part against each side and of the two
\* sides against each other
ratio_of_lengths(sect_len, sep, ab_len, ba_len, dist) ==
  IF sect_len = 0
  THEN norm_distance(dist, ab_len + ba_len)
  ELSE QMax(QMax(norm_distance(dist, 2 * (sect_len + sep) + ab_len + ba_len),
                 norm_distance(sep + ab_len, 2 * sect_len + sep + ab_len)),
            norm_distance(sep + ba_len, 2 * sect_len + sep + ba_len))

ratio_of_joined(sect_len, diff_ab_joined, diff_ba_joined) ==
  ratio_of_lengths(sect_len, IF sect_len # 0 THEN 1 ELSE 0,
                   Len(diff_ab_joined), Len(diff_ba_joined),
                   indel_distance(diff_ab_joined, diff_ba_joined))

ratio_of_parts(intersect, diff_ab, diff_ba) ==
  IF intersect # {} /\ (diff_ab = {} \/ diff_ba = {}) THEN <<100, 1>>
  ELSE ratio_of_joined(JoinedLen(intersect), join(Sorted(diff_ab)), join(Sorted(diff_ba)))

ratio_of_tokens(tokens_a, tokens_b) ==
  IF tokens_a = {} \/ tokens_b = {} THEN <<0, 1>>
  ELSE ratio_of_parts(tokens_a \cap tokens_b, tokens_a \ tokens_b, tokens_b \ tokens_a)

token_set_ratio(s1, s2) == ratio_of_tokens(Elements(split(s1)), Elements(split(s2)))

\* round(x, 1) of the rational q >= 0, in tenths; a tie goes to the even tenth
round1(q) ==
  LET t == (10 * q[1]) \div q[2]
      rem == 10 * q[1] - t * q[2]
  IN IF 2 * rem > q[2] THEN t + 1
     ELSE IF 2 * rem = q[2] THEN (IF t % 2 = 1 THEN t + 1 ELSE t)
     ELSE t

(***************************************************************************)
(* find_best_match                                                         *)
(***************************************************************************)
\* What a call yields.  exc: the call raised.  exit: the return statement
\* reached.  matched, score: the returned pair (score in tenths).
\* best_score, chosen: the scoring step's values on the exits after it.
\* scored: the names that reached the scoring step.
Outcome(exit, matched, score, best_score, chosen, scored) ==
  [exc |-> FALSE, exit |-> exit, matched |-> matched, score |-> score,
   best_score |-> best_score, chosen |-> chosen, scored |-> scored]

Return(exit, matched, score) == Outcome(exit, matched, score, <<0, 1>>, None, <<>>)

\* AttributeError / TypeError on a non-str value
Raised ==
  [exc |-> TRUE, exit |-> "raise", matched |-> None, score |-> 0,
   best_score |-> <<0, 1>>, chosen |-> None, scored |-> <<>>]

\* [(normalize(c), c) for c in choices]
choices_clean_of(choices) ==
  List([i \in 1..Len(choices) |-> <<normalize(choices[i]), choices[i]>>], Len(choices))

\* variant of exact_index: the last pair whose normalized text is file_n
exact_index_last(file_n, cc) ==
  IF \E i \in 1..Len(cc) : cc[i][1] = file_n
  THEN CHOOSE i \in 1..Len(cc) : cc[i][1] = file_n /\ \A k \in (i + 1)..Len(cc) : cc[k][1] # file_n
  ELSE 0

\* step 1: index of the first pair whose normalized text is file_n, 0 if none
exact_index(file_n, cc) ==
  IF \E i \in 1..Len(cc) : cc[i][1] = file_n
  THEN CHOOSE i \in 1..Len(cc) : cc[i][1] = file_n /\ \A k \in 1..(i - 1) : cc[k][1] # file_n
  ELSE 0

\* o.lower() raises on a non-str o; the comprehensions visit every pair
HasNonStr(cc) == \E i \in 1..Len(cc) : ~IsStr(cc[i][2])

\* variant of contains_token: only the first character of token is looked for
contains_token_initial(token, o) == Contains(lower(Chars(o)), SubSeq(token, 1, 1))

\* token in o.lower()
contains_token(token, o) == Contains(lower(Chars(o)), token)

\* variant of filter_contains: the name is not lower-cased
filter_contains_cased(token, cc) == SelectSeq(cc, LAMBDA p : Contains(Chars(p[2]), token))

\* variant of filter_contains: every pair is kept
filter_contains_all(token, cc) == cc

\* [(n, o) for n, o in choices_clean if token in o.lower()]
filter_contains(token, cc) == SelectSeq(cc, LAMBDA p : contains_token(token, p[2]))

\* variant of original_of: the normalized text of the pair
original_of_normalized(pair) == Cat(pair[1])

\* orig_c of a pair (norm_c, orig_c)
original_of(pair) == pair[2]

\* threshold > 0 and best_score < threshold * 100
below_threshold(best_score, threshold) ==
  threshold > 0 /\ QLess(best_score, <<threshold, 1>>)

\* variant of filter_size: every pair is kept
filter_size_all(file_size, cc) == cc

\* [(n, o) for n, o in choices_clean if _normalize_size(o) == file_size]
filter_size(file_size, cc) ==
  SelectSeq(cc, LAMBDA p : normalize_size(p[2]) = file_size)

\* variant of clamp: the sum is not capped
clamp_none(base, bonus) == <<2 * base[1] + bonus * base[2], 2 * base[2]>>

\* min(100.0, base + bonus), bonus in halves of a point
clamp(base, bonus) ==
  IF QLess(<<100, 1>>, <<2 * base[1] + bonus * base[2], 2 * base[2]>>)
  THEN <<100, 1>>
  ELSE <<2 * base[1] + bonus * base[2], 2 * base[2]>>

clamped_score(file_stem, file_n, pair) ==
  clamp(token_set_ratio(file_n, pair[1]), anchor_bonus(file_stem, pair[2]))

\* step 3: scores[i] is the clamped score of the i-th surviving pair
score_list(file_stem, file_n, cc) ==
  List([i \in 1..Len(cc) |-> clamped_score(file_stem, file_n, cc[i])], Len(cc))

\* variant of best_index: the index of the last maximal score
best_index_last(scores) ==
  CHOOSE i \in 1..Len(scores) :
    /\ \A k \in 1..Len(scores) : ~QLess(scores[i], scores[k])
    /\ \A k \in (i + 1)..Len(scores) : QLess(scores[k], scores[i])

\* max(scores, key=lambda x: x[0]): the index of the first maximal score
best_index(scores) ==
  CHOOSE i \in 1..Len(scores) :
    /\ \A k \in 1..Len(scores) : ~QLess(scores[i], scores[k])
    /\ \A k \in 1..(i - 1) : QLess(scores[k], scores[i])

\* the names of a list of pairs
originals(cc) == List([i \in 1..Len(cc) |-> cc[i][2]], Len(cc))

\* variant of verify_choice: a score below the threshold is reset to 0
verify_choice_reset(primary, region, best_score, original_choice, scored, threshold) ==
  IF primary # <<>> /\ ~Contains(lower(Chars(original_choice)), primary)
  THEN Outcome("verify_primary", None, 0, best_score, original_choice, scored)
  ELSE IF region # <<>> /\ ~Contains(lower(Chars(original_choice)), region)
  THEN Outcome("verify_region", None, 0, best_score, original_choice, scored)
  ELSE IF threshold > 0 /\ QLess(best_score, <<threshold, 1>>)
  THEN Outcome("below_threshold", None, 0, best_score, original_choice, scored)
  ELSE Outcome("match", original_choice, round1(best_score),
               best_score, original_choice, scored)

\* step 4 and the threshold, for the chosen name and its score
verify_choice(primary, region, best_score, original_choice, scored, threshold) ==
  IF primary # <<>> /\ ~contains_token(primary, original_choice)
  THEN Outcome("verify_primary", None, 0, best_score, original_choice, scored)
  ELSE IF region # <<>> /\ ~contains_token(region, original_choice)
  THEN Outcome("verify_region", None, 0, best_score, original_choice, scored)
  ELSE IF below_threshold(best_score, threshold)
  THEN Outcome("below_threshold", None, round1(best_score),
               best_score, original_choice, scored)
  ELSE Outcome("match", original_choice, round1(best_score),
               best_score, original_choice, scored)

\* best_score, best_idx = max(scores, ...); original_choice = choices_clean[best_idx][1]
choose_best(primary, region, cc, scores, threshold) ==
  verify_choice(primary, region, scores[best_index(scores)],
                original_of(cc[best_index(scores)]), originals(cc), threshold)

\* steps 3 and 4 and the threshold, on the pairs that survived the filters
score_and_verify(file_stem, file_n, primary, region, cc, threshold) ==
  IF cc = <<>> THEN Return("no_scores", None, 0)
  ELSE IF HasNonStr(cc) THEN Raised
  ELSE choose_best(primary, region, cc, score_list(file_stem, file_n, cc), threshold)

\* step 2c for the size token file_size of the stem
restrict_size_to(file_size, file_stem, file_n, primary, region, cc, threshold) ==
  IF file_size # <<>> /\ HasNonStr(cc) THEN Raised
  ELSE IF file_size # <<>> /\ filter_size(file_size, cc) = <<>>
  THEN Return("no_size", None, 0)
  ELSE score_and_verify(file_stem, file_n, primary, region,
                        IF file_size # <<>> THEN filter_size(file_size, cc) ELSE cc,
                        threshold)

\* step 2c: restrict by size
restrict_size(file_stem, file_n, primary, region, cc, threshold) ==
  restrict_size_to(normalize_size(file_stem), file_stem, file_n, primary, region, cc,
                   threshold)

\* step 2b for the region of the stem
restrict_region_to(region, file_stem, file_n, primary, cc, threshold) ==
  IF region # <<>> /\ HasNonStr(cc) THEN Raised
  ELSE IF region # <<>> /\ filter_contains(region, cc) = <<>>
  THEN Return("no_region", None, 0)
  ELSE restrict_size(file_stem, file_n, primary, region,
                     IF region # <<>> THEN filter_contains(region, cc) ELSE cc,
                     threshold)

\* step 2b: restrict by region
restrict_region(file_stem, file_n, primary, cc, threshold) ==
  restrict_region_to(region_from_file_stem(file_stem), file_stem, file_n, primary, cc,
                     threshold)

\* step 2 for the primary creative token of the stem
restrict_primary_to(primary, file_stem, file_n, cc, threshold) ==
  IF primary # <<>> /\ HasNonStr(cc) THEN Raised
  ELSE IF primary # <<>> /\ filter_contains(primary, cc) = <<>>
  THEN Return("no_primary", None, 0)
  ELSE restrict_region(file_stem, file_n, primary,
                       IF primary # <<>> THEN filter_contains(primary, cc) ELSE cc,
                       threshold)

\* step 2: restrict by the primary creative token; file_stem.split raises on a non-str
restrict_primary(file_stem, file_n, cc, threshold) ==
  IF ~IsStr(file_stem) THEN Raised
  ELSE restrict_primary_to(primary_creative_token(file_stem), file_stem, file_n, cc,
                           threshold)

\* step 1 on the pairs choices_clean, then the rest
exact_or_restrict(file_stem, file_n, choices_clean, threshold) ==
  IF exact_index(file_n, choices_clean) # 0
  THEN Return("exact", original_of(choices_clean[exact_index(file_n, choices_clean)]), 1000)
  ELSE restrict_primary(file_stem, file_n, choices_clean, threshold)

find_best_match(file_stem, choices, threshold) ==
  IF choices = <<>> THEN Return("empty", None, 0)
  ELSE exact_or_restrict(file_stem, normalize(file_stem), choices_clean_of(choices), threshold)

(***************************************************************************)
(* match_all as a state machine: one step per iteration of its loop         *)
(* (with a direct call of normalize and the loop of /api/rename as further  *)
(* state machines over variables of their own)                              *)
(***************************************************************************)
\* file_stems, sheet_names, threshold: the arguments of match_all
\* results: the list match_all builds
\* calls: what each call of find_best_match made by the loop yielded, in order
\* pc: "loop" in the for loop, "done" once returned, "raised" once an
\*     exception left the call
VARIABLES file_stems, sheet_names, threshold, results, calls, pc

\* text: the argument of a call normalize(text)
\* normalized: what the call returned
\* renormalized: what normalize(normalized) returned
\* npc: "call" before the first call, "again" before the second, "done" after
VARIABLES text, normalized, renormalized, npc

\* matches, extensions: the lists of the same names in rename
\* used_names: the set used_names
\* new_names: the new_name of every file the loop has handled, in order
\* out_z: the names of the entries written to the output ZIP, in order
\* rpc: "loop" in the for loop of rename, "closed" after out_z.close()
VARIABLES matches, extensions, used_names, new_names, out_z, rpc

match_vars == <<file_stems, sheet_names, threshold, results, calls, pc>>

normalize_vars == <<text, normalized, renormalized, npc>>

rename_vars == <<matches, extensions, used_names, new_names, out_z, rpc>>

vars == <<match_vars, normalize_vars, rename_vars>>

\* no call of match_all is under way
MatchIdle ==
  /\ file_stems = <<>>
  /\ sheet_names = <<>>
  /\ threshold = 0
  /\ results = <<>>
  /\ calls = <<>>
  /\ pc = "idle"

\* no call of normalize is under way
NormalizeIdle ==
  /\ text = ""
  /\ normalized = ""
  /\ renormalized = ""
  /\ npc = "idle"

\* no call of rename is under way
RenameIdle ==
  /\ matches = <<>>
  /\ extensions = <<>>
  /\ used_names = {}
  /\ new_names = <<>>
  /\ out_z = <<>>
  /\ rpc = "idle"

\* longest batch of stems drawn from BatchPool
MaxStems == 2

\* longest list of canonical names drawn from one group
MaxNames == 2

\* the lists of at most n elements of S
RECURSIVE ListsOverAll(_, _)
ListsOverAll(S, n) ==
  IF n = 0 THEN {<<>>}
  ELSE LET shorter == ListsOverAll(S, n - 1)
       IN shorter \cup {Append(l, x) : l \in shorter, x \in S}

\* the lists of at most n distinct elements of S
ListsOver(S, n) ==
  {l \in ListsOverAll(S, n) : \A i, k \in 1..Len(l) : i # k => l[i] # l[k]}

BrandBEFR == "Brand_BEFR_Display"

BrandBENL == "Brand_BENL_Display"

Promo600 == "Promo_300x600_BEFR_v2"

Promo250 == "Promo_300x250_BEFR_v2"

ExampleStem == "Eng_NCL_Q1_Standard_IAB_728x90_NA_IRCHAMPAGNEGLASS_"

ExampleName == "UnitedKingdom_Q12026_Yahoo_Google_IRCHAMPAGNEGLASS_728x90"

\* groups of canonical names that occur together in a sheet
NameGroups ==
  { {BrandBEFR, BrandBENL},
    {Promo600, Promo250},
    {ExampleName},
    {BrandBEFR, "brand-befr.display"},
    {"abcde", "Ad_10_x_10", "PROMO/BEFR"} }

NameLists == UNION {ListsOver(G, MaxNames) : G \in NameGroups}

\* stems that hold the segment _FR_
FRStems ==
  {p \o "_FR_" \o q : p \in {"", "a", "Brand"}, q \in {"", "b", "Display", "Display_enl"}}

StemPool ==
  FRStems \cup
  { "Brand BEFR Display", "Brand_Display", "Branding_VL", "Promo_300x600_BEFR",
    "Promo_300x250", "Promo_728x90_BEFR", "Broodmix_300x250", "promo/befr",
    "Ad 10 x 10", "abc", "", ExampleStem }

\* stems of the batches of more than one file
BatchPool == {"Brand BEFR Display", "Brand_Display", "abc"}

Batches == {<<s>> : s \in StemPool} \cup ListsOverAll(BatchPool, MaxStems)

\* threshold * 100
Thresholds == {0, 70, 90}

Init ==
  /\ file_stems \in Batches
  /\ sheet_names \in NameLists
  /\ threshold \in Thresholds
  /\ results = <<>>
  /\ calls = <<>>
  /\ pc = "loop"
  /\ NormalizeIdle
  /\ RenameIdle

\* variant of append_result: the entry is put in front
append_result_front(rs, entry) == <<entry>> \o rs

\* results.append({...})
append_result(rs, entry) == Append(rs, entry)

\* {"file_stem": stem, "matched_name": matched, "score": round(score, 1)}
result_entry(stem, r) ==
  [file_stem |-> stem, matched_name |-> r.matched, score |-> round1(<<r.score, 10>>)]

\* the loop body for the outcome r of find_best_match: an exception leaves
\* match_all, a returned pair is appended
loop_body(stem, r) ==
  /\ calls' = Append(calls, r)
  /\ IF r.exc
     THEN pc' = "raised" /\ results' = <<>>
     ELSE pc' = pc /\ results' = append_result(results, result_entry(stem, r))

\* the names of l that no entry of rs holds as its matched_name
not_yet_matched(l, rs) ==
  SelectSeq(l, LAMBDA n : \A i \in 1..Len(rs) : rs[i].matched_name # n)

\* variant of MatchStep: a name matched by an earlier stem is withheld from
\* the later ones
MatchStepExclusive ==
  /\ pc = "loop"
  /\ Len(calls) < Len(file_stems)
  /\ loop_body(file_stems[Len(calls) + 1],
               find_best_match(file_stems[Len(calls) + 1],
                               not_yet_matched(sheet_names, results), threshold))
  /\ UNCHANGED <<file_stems, sheet_names, threshold>>
  /\ UNCHANGED <<normalize_vars, rename_vars>>

\* one iteration of the loop of match_all
MatchStep ==
  /\ pc = "loop"
  /\ Len(calls) < Len(file_stems)
  /\ loop_body(file_stems[Len(calls) + 1],
               find_best_match(file_stems[Len(calls) + 1], sheet_names, threshold))
  /\ UNCHANGED <<file_stems, sheet_names, threshold>>
  /\ UNCHANGED <<normalize_vars, rename_vars>>

\* return results
ReturnResults ==
  /\ pc = "loop"
  /\ Len(calls) = Len(file_stems)
  /\ pc' = "done"
  /\ UNCHANGED <<file_stems, sheet_names, threshold, results, calls>>
  /\ UNCHANGED <<normalize_vars, rename_vars>>

Next == MatchStep \/ ReturnResults

\* every argument a str
Spec == Init /\ [][Next]_vars

\* arguments that may hold a non-str value
AnyStems == {None, "", "abc", "Brand_Display"}

AnyNames == {None, "", "abcde", BrandBEFR}

InitAny ==
  /\ file_stems \in ListsOverAll(AnyStems, MaxStems)
  /\ sheet_names \in ListsOver(AnyNames, MaxNames)
  /\ threshold \in Thresholds
  /\ results = <<>>
  /\ calls = <<>>
  /\ pc = "loop"
  /\ NormalizeIdle
  /\ RenameIdle

SpecAny == InitAny /\ [][Next]_vars

(***************************************************************************)
(* normalize called on a str or a non-str value, and again on its result   *)
(***************************************************************************)
\* longest text passed to normalize
MaxLen == 3

\* an upper-case and a lower-case letter, the space and the three separators
TextChars == {"A", "b", " ", "_", "-", "."}

Texts == {Cat(l) : l \in ListsOverAll(TextChars, MaxLen)}

InitNormalize ==
  /\ text \in Texts \cup {None}
  /\ normalized = ""
  /\ renormalized = ""
  /\ npc = "call"
  /\ MatchIdle
  /\ RenameIdle

\* normalized = normalize(text)
NormalizeCall ==
  /\ npc = "call"
  /\ normalized' = Cat(normalize(text))
  /\ npc' = "again"
  /\ UNCHANGED <<text, renormalized>>
  /\ UNCHANGED <<match_vars, rename_vars>>

\* renormalized = normalize(normalized)
NormalizeAgain ==
  /\ npc = "again"
  /\ renormalized' = Cat(normalize(normalized))
  /\ npc' = "done"
  /\ UNCHANGED <<text, normalized>>
  /\ UNCHANGED <<match_vars, rename_vars>>

NextNormalize == NormalizeCall \/ NormalizeAgain

SpecNormalize == InitNormalize /\ [][NextNormalize]_vars

(***************************************************************************)
(* The loop of /api/rename over the results of match_all                   *)
(***************************************************************************)
\* most files in the uploaded ZIP
MaxFiles == 3

\* results of match_all: a matched file and two unmatched ones, the stem of
\* the second being the matched name and the stem of the third that name
\* with a counter suffix
MatchPool ==
  { [file_stem |-> "x", matched_name |-> "abc", score |-> 1000],
    [file_stem |-> "abc", matched_name |-> None, score |-> 0],
    [file_stem |-> "abc_1", matched_name |-> None, score |-> 0] }

\* what get_extension returns: "." and the suffix, or ""
Exts == {".jpg", ""}

\* the files: a result of match_all and an extension
FileLists == ListsOverAll(MatchPool \X Exts, MaxFiles)

InitRename ==
  /\ \E l \in FileLists :
       /\ matches = List([i \in 1..Len(l) |-> l[i][1]], Len(l))
       /\ extensions = List([i \in 1..Len(l) |-> l[i][2]], Len(l))
  /\ used_names = {}
  /\ new_names = <<>>
  /\ out_z = <<>>
  /\ rpc = "loop"
  /\ MatchIdle
  /\ NormalizeIdle

\* m["matched_name"] or m["file_stem"]
base_of(m) ==
  IF m.matched_name # None /\ m.matched_name # "" THEN m.matched_name ELSE m.file_stem

\* f"{base}_{c}{ext}"
suffixed(base, c, ext) == base \o "_" \o ToString(c) \o ext

\* while new_name in used_names: new_name = f"{base}_{c}{ext}"; c += 1
RECURSIVE free_name(_, _, _, _, _)
free_name(new_name, base, ext, c, used) ==
  IF new_name \notin used THEN new_name
  ELSE free_name(suffixed(base, c, ext), base, ext, c + 1, used)

\* variant of new_name_of: a used name gets the counter 1, without a loop
new_name_once(m, ext, used) ==
  IF (base_of(m) \o ext) \in used THEN suffixed(base_of(m), 1, ext) ELSE base_of(m) \o ext

\* the new_name of a file, for the names used so far
new_name_of(m, ext, used) == free_name(base_of(m) \o ext, base_of(m), ext, 1, used)

\* used_names.add(new_name), then the entry is written unless z.read raises
rename_body(new_name) ==
  /\ used_names' = used_names \cup {new_name}
  /\ new_names' = Append(new_names, new_name)
  /\ \E readable \in BOOLEAN :
       out_z' = IF readable THEN Append(out_z, new_name) ELSE out_z

\* one iteration of the loop of rename
RenameStep ==
  /\ rpc = "loop"
  /\ Len(new_names) < Len(matches)
  /\ rename_body(new_name_of(matches[Len(new_names) + 1],
                             extensions[Len(new_names) + 1], used_names))
  /\ UNCHANGED <<matches, extensions, rpc>>
  /\ UNCHANGED <<match_vars, normalize_vars>>

\* out_z.close()
RenameClose ==
  /\ rpc = "loop"
  /\ Len(new_names) = Len(matches)
  /\ rpc' = "closed"
  /\ UNCHANGED <<matches, extensions, used_names, new_names, out_z>>
  /\ UNCHANGED <<match_vars, normalize_vars>>

NextRename == RenameStep \/ RenameClose

SpecRename == InitRename /\ [][NextRename]_vars

(***************************************************************************)
(* Properties                                                              *)
(***************************************************************************)
\* the positions of the names whose normalized form is that of stem
ExactPositions(stem) ==
  {k \in 1..Len(sheet_names) : normalize(sheet_names[k]) = normalize(stem)}

\* name holds the token as a case-insensitive substring
HoldsToken(name, token) == Contains(lower(Chars(name)), token)

\* the rationals p and q are equal
QEq(p, q) == p[1] * q[2] = q[1] * p[2]

\* C1: exact-match short-circuit.  Whenever some name of a non-empty
\* canonical list normalizes to the normalized stem, the result is the first
\* such name of the list with score exactly 100.0, whatever the other names,
\* the primary token, the region, the size and the threshold are.
C1_ExactShortCircuit ==
  \A i \in 1..Len(results) :
    ExactPositions(file_stems[i]) # {} =>
      /\ \E k \in ExactPositions(file_stems[i]) :
           /\ \A j \in ExactPositions(file_stems[i]) : k <= j
           /\ results[i].matched_name = sheet_names[k]
      /\ results[i].score = 1000

\* C1 happens: an exact match is returned although the list holds another
\* name, the threshold is positive and the returned name does not hold the
\* stem's primary token, so that the primary filter would have dropped it
C1_Witness ==
  \E i \in 1..Len(results) :
    /\ ExactPositions(file_stems[i]) # {}
    /\ Len(sheet_names) > 1
    /\ threshold > 0
    /\ primary_creative_token(file_stems[i]) # <<>>
    /\ ~HoldsToken(results[i].matched_name, primary_creative_token(file_stems[i]))
    /\ results[i].score = 1000

\* C2 as stated: if the stem has a primary token and no canonical name holds
\* it as a case-insensitive substring, the result is no match with score 0,
\* for every threshold.
C2_AsStated ==
  \A i \in 1..Len(results) :
    ( /\ primary_creative_token(file_stems[i]) # <<>>
      /\ \A k \in 1..Len(sheet_names) :
           ~HoldsToken(sheet_names[k], primary_creative_token(file_stems[i])) )
    => (results[i].matched_name = None /\ results[i].score = 0)

\* C2, amended: if the stem has a primary token, no canonical name holds it
\* as a case-insensitive substring, and no canonical name normalizes to the
\* normalized stem, the result is no match with score 0, for every threshold.
C2_FilterSoundness ==
  \A i \in 1..Len(results) :
    ( /\ primary_creative_token(file_stems[i]) # <<>>
      /\ \A k \in 1..Len(sheet_names) :
           ~HoldsToken(sheet_names[k], primary_creative_token(file_stems[i]))
      /\ ExactPositions(file_stems[i]) = {} )
    => (results[i].matched_name = None /\ results[i].score = 0)

\* C2 happens: the primary filter empties a non-empty list at threshold 0
C2_Witness ==
  \E i \in 1..Len(results) :
    /\ primary_creative_token(file_stems[i]) # <<>>
    /\ sheet_names # <<>>
    /\ \A k \in 1..Len(sheet_names) :
         ~HoldsToken(sheet_names[k], primary_creative_token(file_stems[i]))
    /\ ExactPositions(file_stems[i]) = {}
    /\ threshold = 0
    /\ calls[i].exit = "no_primary"
    /\ results[i].matched_name = None

\* the stem holds the segment _FR_
HoldsFR(stem) == Contains(Chars(stem), Chars("_FR_"))

\* the canonical list is the two Brand names, in either order
BrandNames == sheet_names \in {<<BrandBEFR, BrandBENL>>, <<BrandBENL, BrandBEFR>>}

\* C3: region guard.  For a stem that holds _FR_ and the canonical names
\* Brand_BEFR_Display and Brand_BENL_Display in either order, the BENL name
\* is never returned, for any threshold.
C3_RegionGuard ==
  \A i \in 1..Len(results) :
    (HoldsFR(file_stems[i]) /\ BrandNames) => results[i].matched_name # BrandBENL

\* C3 fails whatever the order of the list: a stem holding _FR_ whose region
\* is undetected resolves to the BENL name although the BEFR name comes first
C3_Witness ==
  \E i \in 1..Len(results) :
    /\ HoldsFR(file_stems[i])
    /\ sheet_names = <<BrandBEFR, BrandBENL>>
    /\ threshold = 70
    /\ region_from_file_stem(file_stems[i]) = <<>>
    /\ results[i].matched_name = BrandBENL

\* C4 as stated: when the stem has a size token, a returned name has the
\* same size token; and Promo_300x600_BEFR against the two Promo names, in
\* either order, resolves to the 300x600 name.
C4_AsStated ==
  \A i \in 1..Len(results) :
    /\ (normalize_size(file_stems[i]) # <<>> /\ results[i].matched_name # None)
         => normalize_size(results[i].matched_name) = normalize_size(file_stems[i])
    /\ ( /\ file_stems[i] = "Promo_300x600_BEFR"
         /\ sheet_names \in {<<Promo600, Promo250>>, <<Promo250, Promo600>>} )
         => results[i].matched_name = Promo600

\* C4, amended: when the stem has a size token and no canonical name
\* normalizes to the normalized stem, a returned name has the same size
\* token; and Promo_300x600_BEFR against the two Promo names, in either
\* order, resolves to the 300x600 name.
C4_SizeGuard ==
  \A i \in 1..Len(results) :
    /\ ( /\ normalize_size(file_stems[i]) # <<>>
         /\ ExactPositions(file_stems[i]) = {}
         /\ results[i].matched_name # None )
         => normalize_size(results[i].matched_name) = normalize_size(file_stems[i])
    /\ ( /\ file_stems[i] = "Promo_300x600_BEFR"
         /\ sheet_names \in {<<Promo600, Promo250>>, <<Promo250, Promo600>>} )
         => results[i].matched_name = Promo600

\* C4 happens: the Promo stem meets the 300x250 name first and resolves to
\* the 300x600 name
C4_Witness ==
  \E i \in 1..Len(results) :
    /\ file_stems[i] = "Promo_300x600_BEFR"
    /\ sheet_names = <<Promo250, Promo600>>
    /\ calls[i].scored = <<Promo600>>
    /\ results[i].matched_name = Promo600

\* C5: threshold.  When the scoring step is reached with best score s: for a
\* threshold t > 0 with s < 100 * t the result is (None, s rounded to one
\* decimal), the score is not reset to 0; otherwise, and always for t = 0,
\* the result is (the chosen name, s rounded to one decimal).
C5_Threshold ==
  \A i \in 1..Len(results) :
    calls[i].scored # <<>> =>
      /\ results[i].score = round1(calls[i].best_score)
      /\ results[i].matched_name =
           IF threshold > 0 /\ QLess(calls[i].best_score, <<threshold, 1>>)
           THEN None
           ELSE calls[i].chosen
      /\ calls[i].chosen # None

\* C5 happens: threshold 0.9 and best score 75.0 give no match with score 75.0
C5_Witness ==
  \E i \in 1..Len(results) :
    /\ calls[i].scored # <<>>
    /\ threshold = 90
    /\ QEq(calls[i].best_score, <<75, 1>>)
    /\ results[i].matched_name = None
    /\ results[i].score = 750

\* C6: the engine never raises, for every stem and canonical entry, a value
\* that is no str included.
C6_NeverRaises == pc # "raised"

\* C7: verbatim output.  A returned name, when not None, is an element of the
\* canonical list the caller passed, character for character.
C7_VerbatimOutput ==
  \A i \in 1..Len(results) :
    results[i].matched_name # None =>
      \E k \in 1..Len(sheet_names) : sheet_names[k] = results[i].matched_name

\* C7 happens: one batch returns a name on the exact-match path and one on
\* the scored path, each different from its normalized form
C7_Witness ==
  /\ \E i \in 1..Len(results) :
       /\ calls[i].exit = "exact"
       /\ Chars(results[i].matched_name) # normalize(results[i].matched_name)
  /\ \E i \in 1..Len(results) :
       /\ calls[i].exit = "match"
       /\ Chars(results[i].matched_name) # normalize(results[i].matched_name)

\* the entry carries the pair that the call r returned
SamePair(entry, r) == entry.matched_name = r.matched /\ entry.score = r.score

\* C8: batch ordering.  match_all returns one result per stem, in the order
\* of the stems: result i carries stem i and the pair find_best_match gives
\* for stem i, also for duplicate stems and for stems that resolve to the
\* same name.
C8_BatchOrdering ==
  pc = "done" =>
    /\ Len(results) = Len(file_stems)
    /\ \A i \in 1..Len(file_stems) :
         /\ results[i].file_stem = file_stems[i]
         /\ SamePair(results[i], find_best_match(file_stems[i], sheet_names, threshold))

\* C8 happens: a returned batch of two different stems, resolved differently
C8_Witness ==
  /\ pc = "done"
  /\ Len(file_stems) = 2
  /\ file_stems[1] # file_stems[2]
  /\ results[1].matched_name # None
  /\ results[2].matched_name = None

ExampleDone ==
  /\ pc = "done"
  /\ file_stems = <<ExampleStem>>
  /\ sheet_names = <<ExampleName>>
  /\ threshold = 0

\* C10 as stated: the end-to-end example resolves the stem to the canonical
\* name with a score of at least 90.
C10_AsStated ==
  ExampleDone => (results[1].matched_name = ExampleName /\ results[1].score >= 900)

\* C10, amended: the end-to-end example resolves the stem to the canonical
\* name with score 78.6, the token-set similarity plus the bonus 8.0 for the
\* size and 7.0 for the two shared ID tokens.
C10_EndToEnd ==
  ExampleDone =>
    /\ results[1].matched_name = ExampleName
    /\ results[1].score = 786
    /\ anchor_bonus(ExampleStem, ExampleName) = 30

\* C10 happens: the example batch has returned a scored match
C10_Witness == ExampleDone /\ calls[1].exit = "match"

\* C11: normalize is idempotent and total.  The result of normalize holds no
\* upper-case letter, no underscore, hyphen or period, no leading or trailing
\* space and no two consecutive spaces; an empty or non-str argument gives
\* the empty string; and normalize of the result is the result.
C11_NormalizeIdempotent ==
  /\ npc \in {"again", "done"} =>
       /\ \A i \in 1..Len(normalized) :
            /\ SubSeq(normalized, i, i) \notin UpperSet \cup {"_", "-", "."}
            /\ (i = 1 \/ i = Len(normalized)) => SubSeq(normalized, i, i) # " "
            /\ i > 1 => SubSeq(normalized, i - 1, i) # "  "
       /\ (text = "" \/ text = None) => normalized = ""
  /\ npc = "done" => renormalized = normalized

\* C11 happens: a text with an upper-case letter and a separator between two
\* words was normalized twice
C11_Witness ==
  /\ npc = "done"
  /\ \E i \in 1..Len(text) : SubSeq(text, i, i) \in UpperSet
  /\ \E i \in 1..Len(text) : SubSeq(text, i, i) \in {"_", "-", "."}
  /\ \E i \in 1..Len(normalized) : SubSeq(normalized, i, i) = " "
  /\ renormalized # text

\* the anchor bonus as C12 states it, in halves of a point: +8 when both size
\* tokens are non-empty and equal, plus min(7, 3.5 * shared ID tokens)
StatedBonus(stem, name) ==
  (IF /\ normalize_size(stem) # <<>>
      /\ normalize_size(name) # <<>>
      /\ normalize_size(stem) = normalize_size(name)
   THEN 16 ELSE 0)
  + Min(14, 7 * Cardinality(creative_id_tokens(stem) \cap creative_id_tokens(name)))

\* the rational base plus a bonus given in halves of a point
PlusHalves(base, bonus) == <<2 * base[1] + bonus * base[2], 2 * base[2]>>

\* the rational q with a ceiling of 100
AtMost100(q) == IF QLess(<<100, 1>>, q) THEN <<100, 1>> ELSE q

\* base similarity plus bonus for stem and name, before the ceiling
Unclamped(stem, name) ==
  PlusHalves(token_set_ratio(normalize(stem), normalize(name)), StatedBonus(stem, name))

\* the bonus is the stated one and lies in [0, 15]
BonusIs(bonus, stated) == bonus = stated /\ bonus \in 0..30

\* C12: score range.  Every returned score lies in [0, 100]; the anchor bonus
\* is +8 exactly when both size tokens are non-empty and equal plus
\* min(7, 3.5 * shared ID tokens), so it lies in [0, 15]; and the best score
\* is base similarity plus bonus with a ceiling of 100, applied before the
\* threshold test and the return.
C12_ScoreRange ==
  \A i \in 1..Len(results) :
    /\ results[i].score \in 0..1000
    /\ \A k \in 1..Len(sheet_names) :
         BonusIs(anchor_bonus(file_stems[i], sheet_names[k]),
                 StatedBonus(file_stems[i], sheet_names[k]))
    /\ calls[i].scored # <<>> =>
         /\ ~QLess(<<100, 1>>, calls[i].best_score)
         /\ ~QLess(calls[i].best_score, <<0, 1>>)
         /\ QEq(calls[i].best_score,
                AtMost100(Unclamped(file_stems[i], calls[i].chosen)))

\* C12 happens: a scored match whose similarity plus bonus exceeds 100 is
\* returned with score 100.0
C12_Witness ==
  \E i \in 1..Len(results) :
    /\ calls[i].exit = "match"
    /\ QLess(<<100, 1>>, Unclamped(file_stems[i], calls[i].chosen))
    /\ StatedBonus(file_stems[i], calls[i].chosen) > 0
    /\ results[i].score = 1000

\* name passes every restriction whose anchor (primary token, region code,
\* size token) is present
PassesRestrictions(primary, region, size, name) ==
  /\ primary # <<>> => HoldsToken(name, primary)
  /\ region # <<>> => HoldsToken(name, region)
  /\ size # <<>> => normalize_size(name) = size

\* the canonical names that pass for the three anchors, in list order
SurvivorsOf(primary, region, size) ==
  SelectSeq(sheet_names, LAMBDA n : PassesRestrictions(primary, region, size, n))

\* the canonical names that pass for the anchors of the stem, in list order
Survivors(stem) ==
  SurvivorsOf(primary_creative_token(stem), region_from_file_stem(stem),
              normalize_size(stem))

\* the call scored exactly the names of survivors, and returned (None, 0.0)
\* from a filter's exit when there is none
ScoredExactly(call, entry, survivors) ==
  /\ call.scored = survivors
  /\ survivors = <<>> =>
       /\ call.exit \in {"no_primary", "no_region", "no_size"}
       /\ entry.matched_name = None
       /\ entry.score = 0

\* C13: candidate filter.  When no name normalizes to the normalized stem,
\* the names that reach scoring are exactly the canonical names, in list
\* order, that pass every restriction whose anchor is present in the stem; an
\* absent anchor removes nothing; and when no name passes, the result is
\* (None, 0.0) without scoring, whatever the threshold.
C13_CandidateFilter ==
  \A i \in 1..Len(results) :
    (sheet_names # <<>> /\ ExactPositions(file_stems[i]) = {}) =>
      /\ ScoredExactly(calls[i], results[i], Survivors(file_stems[i]))
      /\ ( /\ primary_creative_token(file_stems[i]) = <<>>
           /\ region_from_file_stem(file_stems[i]) = <<>>
           /\ normalize_size(file_stems[i]) = <<>> ) => calls[i].scored = sheet_names

\* C13 happens: a stem with all three anchors, and one of two names reaches
\* scoring
C13_Witness ==
  \E i \in 1..Len(results) :
    /\ ExactPositions(file_stems[i]) = {}
    /\ primary_creative_token(file_stems[i]) # <<>>
    /\ region_from_file_stem(file_stems[i]) # <<>>
    /\ normalize_size(file_stems[i]) # <<>>
    /\ Len(sheet_names) = 2
    /\ Len(calls[i].scored) = 1

\* base similarity plus bonus for stem and name, with the ceiling of 100
Capped(stem, name) == AtMost100(Unclamped(stem, name))

\* the capped scores of the stem against the names, in order
CappedScores(stem, names) ==
  List([k \in 1..Len(names) |-> Capped(stem, names[k])], Len(names))

\* the call chose the first name with the greatest of the scores, and the
\* entry returned carries that score, rounded, and that name or None
FirstGreatestChosen(call, entry, scores) ==
  \E k \in 1..Len(scores) :
    /\ call.chosen = call.scored[k]
    /\ \A j \in 1..Len(scores) : ~QLess(scores[k], scores[j])
    /\ \A j \in 1..(k - 1) : QLess(scores[j], scores[k])
    /\ QEq(call.best_score, scores[k])
    /\ entry.score = round1(scores[k])
    /\ entry.matched_name \in {None, call.scored[k]}

\* C14: selection and score consistency.  At the scoring step the chosen
\* name has the greatest capped score of the names that reached scoring, the
\* first of them in filtered order when several have it, and the score
\* returned is the rounded score of that same name.
C14_SelectionConsistency ==
  \A i \in 1..Len(results) :
    calls[i].scored # <<>> =>
      FirstGreatestChosen(calls[i], results[i],
                          CappedScores(file_stems[i], calls[i].scored))

\* C14 happens: two names reach scoring with equal capped scores and the
\* first of them is returned with that score
C14_Witness ==
  \E i \in 1..Len(results) :
    /\ Len(calls[i].scored) = 2
    /\ QEq(Capped(file_stems[i], calls[i].scored[1]),
           Capped(file_stems[i], calls[i].scored[2]))
    /\ results[i].matched_name = calls[i].scored[1]
    /\ results[i].score = round1(Capped(file_stems[i], calls[i].scored[2]))
    /\ results[i].score > 0

\* the exits of find_best_match on an emptied filter
FilterExits == {"no_primary", "no_region", "no_size"}

\* the two exits of the final verification
VerifyExits == {"verify_primary", "verify_region"}

\* the final verification never rejects: neither of its exits is taken, and
\* a name chosen at the scoring step holds the primary token and the region
\* code the stem has
VerificationPasses ==
  \A i \in 1..Len(results) :
    /\ calls[i].exit \notin VerifyExits
    /\ calls[i].scored # <<>> =>
         /\ primary_creative_token(file_stems[i]) # <<>> =>
              HoldsToken(calls[i].chosen, primary_creative_token(file_stems[i]))
         /\ region_from_file_stem(file_stems[i]) # <<>> =>
              HoldsToken(calls[i].chosen, region_from_file_stem(file_stems[i]))

\* C15 as stated: the final verification never rejects, and a result
\* (None, 0.0) for a non-empty list comes only from an emptied filter.
C15_AsStated ==
  /\ VerificationPasses
  /\ \A i \in 1..Len(results) :
       (sheet_names # <<>> /\ results[i].matched_name = None /\ results[i].score = 0)
         => calls[i].exit \in FilterExits

\* C15, amended: the final verification never rejects, and a result
\* (None, 0.0) for a non-empty list comes only from an emptied filter or from
\* a best score that rounds to 0.0 and lies below a positive threshold.
C15_VerifyNeverRejects ==
  /\ VerificationPasses
  /\ \A i \in 1..Len(results) :
       (sheet_names # <<>> /\ results[i].matched_name = None /\ results[i].score = 0)
         => \/ calls[i].exit \in FilterExits
            \/ /\ calls[i].exit = "below_threshold"
               /\ threshold > 0
               /\ round1(calls[i].best_score) = 0

\* C15 happens: a stem with a primary token and a region, and a name chosen
\* at the scoring step that passes the final verification
C15_Witness ==
  \E i \in 1..Len(results) :
    /\ primary_creative_token(file_stems[i]) # <<>>
    /\ region_from_file_stem(file_stems[i]) # <<>>
    /\ calls[i].scored # <<>>
    /\ calls[i].exit = "match"

\* the name file i resolves to: matched name, or its stem, plus extension
Resolved(i) == base_of(matches[i]) \o extensions[i]

\* the names given to the files before file i
UsedBefore(i) == {new_names[j] : j \in 1..(i - 1)}

\* the names given to the files and those of the ZIP entries are pairwise
\* distinct, and used_names holds the names given
NamesDistinct ==
  /\ \A i, j \in 1..Len(new_names) : i # j => new_names[i] # new_names[j]
  /\ \A i, j \in 1..Len(out_z) : i # j => out_z[i] # out_z[j]
  /\ \A i \in 1..Len(out_z) : out_z[i] \in used_names
  /\ used_names = {new_names[i] : i \in 1..Len(new_names)}

\* a file whose resolved name is already used gets base_c for the smallest
\* counter c >= 1 that gives an unused name
SmallestCounter ==
  \A i \in 1..Len(new_names) :
    Resolved(i) \in UsedBefore(i) =>
      \E c \in 1..Len(new_names) :
        /\ new_names[i] = suffixed(base_of(matches[i]), c, extensions[i])
        /\ new_names[i] \notin UsedBefore(i)
        /\ \A d \in 1..(c - 1) :
             suffixed(base_of(matches[i]), d, extensions[i]) \in UsedBefore(i)

\* the first file that resolves to a name keeps it
FirstKeepsName ==
  \A i \in 1..Len(new_names) :
    (\A j \in 1..(i - 1) : Resolved(j) # Resolved(i)) => new_names[i] = Resolved(i)

\* a file whose resolved name is not used yet keeps it
UnusedKeepsName ==
  \A i \in 1..Len(new_names) :
    Resolved(i) \notin UsedBefore(i) => new_names[i] = Resolved(i)

====
